---- MODULE Spec2Model ----
(***************************************************************************)
(* Model of `acorn image sign` (ImageSign.Run and getPrivateKeyPass).      *)
(* One invocation of Run is a sequence of steps; every call to an external *)
(* collaborator is appended to `log`, so ordering properties are state     *)
(* predicates over the log.  Strings whose characters matter (the key, the *)
(* passphrase) are sequences of one-character strings.                     *)
(***************************************************************************)
EXTENDS Integers, Sequences, FiniteSets, TLC

VARIABLES pc, Key, Annotations, fsState, log, ret, ref, details, pass,
          sigSigner, err, keyBytes, annotations, penv, pret

vars == <<pc, Key, Annotations, fsState, log, ret, ref, details, pass,
          sigSigner, err, keyBytes, annotations, penv, pret>>

----------------------------------------------------------------------------
(* Bounds and input alphabets *)

KeyLenLimit == 255

MaxKeyTail == 2

NL == "\n"

KeyChars == {"k", NL}

PassValues == {<<>>, <<"p">>, <<"p", NL>>}

AnnKeys == {"b", "c", "/x"}

AnnVals == {"9", "L", "!"}

RefValues == {"reg/app:v1", "deadbeef"}

AppImageID == "sha256:deadbeef"

Pad(n) == [i \in 1..n |-> "k"]

SeqsUpTo(S, n) == UNION {[1..m -> S] : m \in 0..n}

PadLens == {0, 1, KeyLenLimit - 1}

Keys == {Pad(p) \o t : p \in PadLens, t \in SeqsUpTo(KeyChars, MaxKeyTail)}

----------------------------------------------------------------------------
(* Go values *)

NilBytes == [isNil |-> TRUE, bytes |-> <<>>]

Bytes(s) == [isNil |-> FALSE, bytes |-> s]

NilMap == [isNil |-> TRUE, m |-> <<>>]

Map(f) == [isNil |-> FALSE, m |-> f]

NilRef == "<nil>"

AnnotationMaps == {NilMap} \cup
    {Map(f) : f \in UNION {[D -> AnnVals] : D \in SUBSET AnnKeys}}

----------------------------------------------------------------------------
(* strings package *)

Contains(s, substr) ==
    \E i \in 0..(Len(s) - Len(substr)) : SubSeq(s, i + 1, i + Len(substr)) = substr

RECURSIVE TrimLeft(_, _)
TrimLeft(s, c) ==
    IF Len(s) > 0 /\ Head(s) = c THEN TrimLeft(Tail(s), c) ELSE s

RECURSIVE TrimRight(_, _)
TrimRight(s, c) ==
    IF Len(s) > 0 /\ s[Len(s)] = c THEN TrimRight(SubSeq(s, 1, Len(s) - 1), c) ELSE s

Trim(s, c) == TrimRight(TrimLeft(s, c), c)

----------------------------------------------------------------------------
(* Collaborators whose result is an input of the model *)

\* os.Stat(a.Key): the state of the path named by the key
FsStates == {"notexist", "othererr", "dir", "file"}

os_Stat(fs) ==
    [err   |-> CASE fs = "notexist" -> "no such file or directory"
                 [] fs = "othererr" -> "permission denied"
                 [] OTHER           -> "",
     isDir |-> fs = "dir"]

os_IsNotExist(e) == e = "no such file or directory"

ErrUnsupportedPem == "unsupported pem type"

NoKeyPair == [PrivateBytes |-> <<>>, Password |-> NilBytes]

IsUnsupportedPem_mut(e) == e # ""

\* line 123: strings.Contains(err.Error(), "unsupported pem type")
IsUnsupportedPem(e) == e = ErrUnsupportedPem

LoadResults == {"", ErrUnsupportedPem, "decryption failed"}

ImportResults ==
    {[err |-> "import failed", PrivateBytes |-> <<>>, Password |-> NilBytes]} \cup
    {[err |-> "", PrivateBytes |-> <<"i">>, Password |-> p] :
        p \in {NilBytes, Bytes(<<"q">>)}}

\* signatureannotations.GenerateSelector with the two value complaints filtered
InvalidKeySyntax(k) == k = "/x"

ValueTooLong(v) == v = "L"

ValueFailsRegexp(v) == v = "!"

GenerateSelectorErr(a) ==
    IF a.isNil THEN FALSE ELSE \E k \in DOMAIN a.m : InvalidKeySyntax(k)

\* tags.IsLocalReference: a content-address-prefix form
IsLocalReference(s) == s = "deadbeef"

\* acornsign.GetDefaultSignatureAnnotations
GetDefaultSignatureAnnotations(signedName) ==
    ("a" :> signedName) @@ ("b" :> "2")

----------------------------------------------------------------------------
(* getPrivateKeyPass and isTerm *)

NoEnv == [envSet |-> FALSE, envVal |-> <<>>, stdinMode |-> "other",
          prompt |-> [val |-> <<>>, err |-> ""], stdin |-> [val |-> <<>>, err |-> ""]]

NoRet == [val |-> <<>>, err |-> "", consulted |-> <<>>, panic |-> FALSE]

ReadResults(failure) ==
    {[val |-> v, err |-> ""] : v \in PassValues} \cup {[val |-> <<>>, err |-> failure]}

PassEnvs ==
    [envSet : BOOLEAN, envVal : PassValues,
     stdinMode : {"chardev", "other", "nostat"},
     prompt : ReadResults("prompt failed"), stdin : ReadResults("read failed")]

\* isTerm dereferences the FileInfo of a failed Stat: that is a panic
isTerm(e) == e.stdinMode = "chardev"

getPrivateKeyPass_mut(e) ==
    CASE e.stdinMode = "chardev" ->
           [val |-> e.prompt.val, err |-> e.prompt.err,
            consulted |-> <<"isTerm", "prompt">>, panic |-> FALSE]
      [] e.stdinMode # "chardev" /\ e.envSet ->
           [val |-> e.envVal, err |-> "", consulted |-> <<"isTerm", "env">>, panic |-> FALSE]
      [] OTHER ->
           [val |-> e.stdin.val, err |-> e.stdin.err,
            consulted |-> <<"isTerm", "env", "stdin">>, panic |-> FALSE]

\* lines 186-198
getPrivateKeyPass(e) ==
    CASE e.envSet ->
           [val |-> e.envVal, err |-> "", consulted |-> <<"env">>, panic |-> FALSE]
      [] ~e.envSet /\ e.stdinMode = "nostat" ->
           [val |-> <<>>, err |-> "", consulted |-> <<"env", "isTerm">>, panic |-> TRUE]
      [] ~e.envSet /\ e.stdinMode # "nostat" /\ isTerm(e) ->
           [val |-> e.prompt.val, err |-> e.prompt.err,
            consulted |-> <<"env", "isTerm", "prompt">>, panic |-> FALSE]
      [] OTHER ->
           [val |-> e.stdin.val, err |-> e.stdin.err,
            consulted |-> <<"env", "isTerm", "stdin">>, panic |-> FALSE]

NormalizePass_mut(pw) == Bytes(pw)

\* lines 89-91: nothing instead of empty pass
NormalizePass(pw) == IF Len(pw) = 0 THEN NilBytes ELSE Bytes(pw)

----------------------------------------------------------------------------
(* Key classification, lines 100-120 *)

IsRawKeyData_mut(key) == Len(key) > KeyLenLimit

\* line 100: not a file name (too long or contains newlines)
IsRawKeyData(key) ==
    Len(key) > KeyLenLimit \/ Contains(Trim(key, NL), <<NL>>)

\* line 107: the stat error after which the key is loaded as raw data
StatFallsBack(statErr, key) ==
    os_IsNotExist(statErr) \/ Contains(<<NL>>, key)

\* route taken for a key, and whether os.Stat was called on it
ClassifyKey(key, fs) ==
    IF IsRawKeyData(key)
    THEN [route |-> "raw", statted |-> FALSE]
    ELSE LET st == os_Stat(fs) IN
         IF st.err # ""
         THEN IF StatFallsBack(st.err, key)
              THEN [route |-> "raw", statted |-> TRUE]
              ELSE [route |-> "staterr", statted |-> TRUE]
         ELSE IF st.isDir
              THEN [route |-> "dir", statted |-> TRUE]
              ELSE [route |-> "file", statted |-> TRUE]

Assign_mut(m, k, v) ==
    [x \in DOMAIN m \cup {k} |-> IF x \in DOMAIN m THEN m[x] ELSE v]

\* lines 143-147: for k, v := range a.Annotations { annotations[k] = v }
Assign(m, k, v) == [x \in DOMAIN m \cup {k} |-> IF x = k THEN v ELSE m[x]]

RECURSIVE AssignAll(_, _, _)
AssignAll(m, over, ks) ==
    IF ks = {} THEN m
    ELSE LET k == CHOOSE x \in ks : TRUE
         IN  AssignAll(Assign(m, k, over[k]), over, ks \ {k})

MergeAnnotations(defaults, a) ==
    IF a.isNil THEN defaults ELSE AssignAll(defaults, a.m, DOMAIN a.m)

\* lines 137-141
SignedName(r, d) == IF IsLocalReference(r) THEN d ELSE r

----------------------------------------------------------------------------
(* ImageSign.Run, step by step *)

Entry(op, arg, p, res) == [op |-> op, arg |-> arg, pass |-> p, res |-> res]

Call(op, res) == Entry(op, <<>>, NilBytes, res)

Return(e) == pc' = "done" /\ ret' = e

Init ==
    /\ pc = "start"
    /\ Key \in Keys
    /\ Annotations \in AnnotationMaps
    /\ fsState \in FsStates
    /\ log = <<>>
    /\ ret = "running"
    /\ ref = NilRef
    /\ details = ""
    /\ pass = NilBytes
    /\ sigSigner = "none"
    /\ err = ""
    /\ keyBytes = NoKeyPair
    /\ annotations = <<>>
    /\ penv = NoEnv
    /\ pret = NoRet

\* lines 49-51
CheckKey ==
    /\ pc = "start"
    /\ IF Key = <<>>
       THEN Return("key is required")
       ELSE pc' = "validate" /\ UNCHANGED ret
    /\ UNCHANGED <<Key, Annotations, fsState, log, ref, details, pass,
                   sigSigner, err, keyBytes, annotations, penv, pret>>

ValidateAnnotations_mut ==
    /\ pc = "validate"
    /\ pc' = "client"
    /\ UNCHANGED <<Key, Annotations, fsState, log, ret, ref, details, pass,
                   sigSigner, err, keyBytes, annotations, penv, pret>>

\* lines 53-57
ValidateAnnotations ==
    /\ pc = "validate"
    /\ IF GenerateSelectorErr(Annotations)
       THEN Return("failed to parse provided annotations")
       ELSE pc' = "client" /\ UNCHANGED ret
    /\ UNCHANGED <<Key, Annotations, fsState, log, ref, details, pass,
                   sigSigner, err, keyBytes, annotations, penv, pret>>

\* lines 61-64
CreateClient ==
    /\ pc = "client"
    /\ \E e \in {"", "no client"} :
         /\ log' = Append(log, Call("CreateDefault", e))
         /\ IF e # "" THEN Return(e) ELSE pc' = "auth" /\ UNCHANGED ret
    /\ UNCHANGED <<Key, Annotations, fsState, ref, details, pass,
                   sigSigner, err, keyBytes, annotations, penv, pret>>

\* lines 66-69
GetAuth ==
    /\ pc = "auth"
    /\ \E e \in {"", "no auth"} :
         /\ log' = Append(log, Call("getAuthForImage", e))
         /\ IF e # "" THEN Return(e) ELSE pc' = "parse" /\ UNCHANGED ret
    /\ UNCHANGED <<Key, Annotations, fsState, ref, details, pass,
                   sigSigner, err, keyBytes, annotations, penv, pret>>

\* lines 71-72: the parse error is dropped, the returned reference is kept
ParseReference ==
    /\ pc = "parse"
    /\ \E r \in RefValues \cup {NilRef} : ref' = r
    /\ pc' = "details"
    /\ UNCHANGED <<Key, Annotations, fsState, log, ret, details, pass,
                   sigSigner, err, keyBytes, annotations, penv, pret>>

ImageDetails_mut ==
    /\ pc = "details"
    /\ \E e \in {"", "image not found"} :
         /\ log' = Append(log, Call("ImageDetails", e))
         /\ IF e # "" /\ ~IsLocalReference(ref)
            THEN Return(e) /\ UNCHANGED details
            ELSE pc' = "digest" /\ details' = AppImageID /\ UNCHANGED ret
    /\ UNCHANGED <<Key, Annotations, fsState, ref, pass,
                   sigSigner, err, keyBytes, annotations, penv, pret>>

\* lines 74-79
ImageDetails ==
    /\ pc = "details"
    /\ \E e \in {"", "image not found"} :
         /\ log' = Append(log, Call("ImageDetails", e))
         /\ IF e # ""
            THEN Return(e) /\ UNCHANGED details
            ELSE pc' = "digest" /\ details' = AppImageID /\ UNCHANGED ret
    /\ UNCHANGED <<Key, Annotations, fsState, ref, pass,
                   sigSigner, err, keyBytes, annotations, penv, pret>>

TargetDigest_mut ==
    /\ pc = "digest"
    /\ IF ref = NilRef
       THEN Return("panic")
       ELSE pc' = "classify" /\ UNCHANGED ret
    /\ UNCHANGED <<Key, Annotations, fsState, log, ref, details, pass,
                   sigSigner, err, keyBytes, annotations, penv, pret>>

\* lines 81-83: ref.Context() on a nil Reference panics
TargetDigest ==
    /\ pc = "digest"
    /\ IF ref = NilRef
       THEN Return("panic")
       ELSE pc' = "pass" /\ UNCHANGED ret
    /\ UNCHANGED <<Key, Annotations, fsState, log, ref, details, pass,
                   sigSigner, err, keyBytes, annotations, penv, pret>>

\* lines 85-95
GetPass ==
    /\ pc = "pass"
    /\ \E e \in PassEnvs :
         LET r == getPrivateKeyPass(e) IN
           IF r.panic
           THEN /\ log' = Append(log, Entry("getPrivateKeyPass", <<>>, NilBytes, "panic"))
                /\ Return("panic")
                /\ UNCHANGED pass
           ELSE /\ log' = Append(log, Entry("getPrivateKeyPass", r.val, NilBytes, r.err))
                /\ IF r.err # ""
                   THEN Return(r.err) /\ UNCHANGED pass
                   ELSE /\ pass' = NormalizePass(r.val)
                        /\ pc' = "classify"
                        /\ UNCHANGED ret
    /\ UNCHANGED <<Key, Annotations, fsState, ref, details,
                   sigSigner, err, keyBytes, annotations, penv, pret>>

\* lines 97-120: classification and the first attempt to build the signer
Classify ==
    /\ pc = "classify"
    /\ LET c    == ClassifyKey(Key, fsState)
           st   == os_Stat(fsState)
           stat == IF c.statted THEN <<Entry("os.Stat", Key, NilBytes, st.err)>> ELSE <<>>
       IN
         CASE c.route = "raw" ->
                \E r \in LoadResults :
                  /\ log' = log \o stat \o <<Entry("LoadPrivateKey", Key, pass, r)>>
                  /\ err' = r
                  /\ sigSigner' = IF r = "" THEN "raw" ELSE "none"
                  /\ pc' = "recover"
                  /\ UNCHANGED ret
           [] c.route = "file" ->
                \E r \in LoadResults :
                  /\ log' = log \o stat \o <<Entry("SignerVerifierFromKeyRef", Key, pass, r)>>
                  /\ err' = r
                  /\ sigSigner' = IF r = "" THEN "file" ELSE "none"
                  /\ pc' = "recover"
                  /\ UNCHANGED ret
           [] c.route = "staterr" ->
                /\ log' = log \o stat
                /\ Return("failed to stat key file")
                /\ UNCHANGED <<err, sigSigner>>
           [] c.route = "dir" ->
                /\ log' = log \o stat
                /\ Return("invalid key file: is directory")
                /\ UNCHANGED <<err, sigSigner>>
    /\ UNCHANGED <<Key, Annotations, fsState, ref, details, pass, keyBytes,
                   annotations, penv, pret>>

\* lines 122-135: import the key when its PEM type is not supported
Recover ==
    /\ pc = "recover"
    /\ IF err = ""
       THEN /\ pc' = "annotate"
            /\ UNCHANGED <<log, ret, sigSigner, err, keyBytes>>
       ELSE IF ~IsUnsupportedPem(err)
       THEN /\ Return("failed to create signer from private key")
            /\ UNCHANGED <<log, sigSigner, err, keyBytes>>
       ELSE \E imp \in ImportResults :
              LET import == Entry("ImportKeyPair", Key, pass, imp.err) IN
              IF imp.err # ""
              THEN /\ log' = Append(log, import)
                   /\ Return("failed to import private key")
                   /\ UNCHANGED <<sigSigner, err, keyBytes>>
              ELSE \E r \in LoadResults :
                     /\ log' = log \o <<import,
                                 Entry("LoadPrivateKey", imp.PrivateBytes, imp.Password, r)>>
                     /\ keyBytes' = [PrivateBytes |-> imp.PrivateBytes,
                                      Password |-> imp.Password]
                     /\ err' = r
                     /\ IF r # ""
                        THEN /\ Return("failed to create signer from imported private key")
                             /\ UNCHANGED sigSigner
                        ELSE /\ sigSigner' = "imported"
                             /\ pc' = "annotate"
                             /\ UNCHANGED ret
    /\ UNCHANGED <<Key, Annotations, fsState, ref, details, pass,
                   annotations, penv, pret>>

\* lines 137-147
Annotate ==
    /\ pc = "annotate"
    /\ annotations' =
         MergeAnnotations(GetDefaultSignatureAnnotations(SignedName(ref, details)),
                          Annotations)
    /\ pc' = "sign"
    /\ UNCHANGED <<Key, Annotations, fsState, log, ret, ref, details, pass,
                   sigSigner, err, keyBytes, penv, pret>>

Sign_mut ==
    /\ pc = "sign"
    /\ \E e \in {"", "signing failed"} :
         /\ log' = Append(log, Entry("SignImage", <<sigSigner>>, NilBytes, e))
         /\ pc' = "submit"
         /\ UNCHANGED ret
    /\ UNCHANGED <<Key, Annotations, fsState, ref, details, pass,
                   sigSigner, err, keyBytes, annotations, penv, pret>>

\* lines 149-152
Sign ==
    /\ pc = "sign"
    /\ \E e \in {"", "signing failed"} :
         /\ log' = Append(log, Entry("SignImage", <<sigSigner>>, NilBytes, e))
         /\ IF e # "" THEN Return(e) ELSE pc' = "submit" /\ UNCHANGED ret
    /\ UNCHANGED <<Key, Annotations, fsState, ref, details, pass,
                   sigSigner, err, keyBytes, annotations, penv, pret>>

\* lines 154-183: public key, then the submission to the signing service
Submit ==
    /\ pc = "submit"
    /\ \/ /\ log' = Append(log, Call("PublicKey", "no public key"))
          /\ Return("no public key")
       \/ /\ log' = log \o <<Call("PublicKey", ""),
                             Call("PemEncodeCryptoPublicKey", "encoding failed")>>
          /\ Return("encoding failed")
       \/ \E pem \in {<<>>, <<"pem">>}, e \in {"", "submission failed"} :
            /\ log' = log \o <<Call("PublicKey", "")>>
                          \o (IF pem # <<>>
                              THEN <<Call("PemEncodeCryptoPublicKey", "")>> ELSE <<>>)
                          \o <<Entry("ImageSign", pem, NilBytes, e)>>
            /\ Return(IF e # "" THEN e ELSE "nil")
    /\ UNCHANGED <<Key, Annotations, fsState, ref, details, pass,
                   sigSigner, err, keyBytes, annotations, penv, pret>>

Next ==
    \/ CheckKey
    \/ ValidateAnnotations
    \/ CreateClient
    \/ GetAuth
    \/ ParseReference
    \/ ImageDetails
    \/ TargetDigest
    \/ GetPass
    \/ Classify
    \/ Recover
    \/ Annotate
    \/ Sign
    \/ Submit

Spec == Init /\ [][Next]_vars

----------------------------------------------------------------------------
(* getPrivateKeyPass on its own: every environment, one call *)

InitPass ==
    /\ pc = "call"
    /\ penv \in PassEnvs
    /\ pret = NoRet
    /\ Key = <<>>
    /\ Annotations = NilMap
    /\ fsState = "notexist"
    /\ log = <<>>
    /\ ret = "running"
    /\ ref = NilRef
    /\ details = ""
    /\ pass = NilBytes
    /\ sigSigner = "none"
    /\ err = ""
    /\ keyBytes = NoKeyPair
    /\ annotations = <<>>

CallGetPass ==
    /\ pc = "call"
    /\ pret' = getPrivateKeyPass(penv)
    /\ pc' = "returned"
    /\ UNCHANGED <<Key, Annotations, fsState, log, ret, ref, details, pass,
                   sigSigner, err, keyBytes, annotations, penv>>

NextPass == CallGetPass

SpecPass == InitPass /\ [][NextPass]_vars

----------------------------------------------------------------------------
(* Properties *)

Ops(op) == {i \in DOMAIN log : log[i].op = op}

Constructs ==
    {i \in DOMAIN log : log[i].op \in {"LoadPrivateKey", "SignerVerifierFromKeyRef"}}

Failed(i) == log[i].res # ""

IsError(r) == r \notin {"running", "nil", "panic"}

\* the key was classified in this invocation: the provider returned and line 100 ran
Classified ==
    /\ \E i \in Ops("getPrivateKeyPass") : ~Failed(i)
    /\ pc # "classify"

\* the first attempt to build the signer is from the literal key bytes
RawFirst ==
    /\ Constructs # {}
    /\ \A i \in Constructs :
         (\A j \in Constructs : i <= j) =>
            /\ log[i].op = "LoadPrivateKey"
            /\ log[i].arg = Key
            /\ log[i].pass = pass

\* C1 (as amended): a non-empty key longer than 255 characters, or with a
\* newline left after its leading and trailing newlines are trimmed, is loaded
\* as raw key material and os.Stat is never called, whatever the path's state.
Thm_C1 ==
    (Classified /\ Key # <<>>
       /\ (Len(Key) > KeyLenLimit \/ Contains(Trim(Key, NL), <<NL>>)))
    => (RawFirst /\ Ops("os.Stat") = {})

Witness_C1 ==
    /\ pc = "recover"
    /\ Len(Key) <= KeyLenLimit
    /\ Contains(Trim(Key, NL), <<NL>>)
    /\ fsState = "dir"
    /\ sigSigner = "raw"

\* C1 as stated: "embedded" meaning a newline left after the trailing newlines
\* alone are trimmed; such a key is always loaded as raw key material.
CEx_C1 ==
    (Classified /\ Key # <<>>
       /\ (Len(Key) > KeyLenLimit \/ Contains(TrimRight(Key, NL), <<NL>>)))
    => (RawFirst /\ Ops("os.Stat") = {})

\* C2: a key of at most 255 characters without embedded newline whose stat
\* fails for another reason than "does not exist" makes Run return the stat
\* failure, with no signer construction, import, signing or submission.
CEx_C2 ==
    (Classified /\ Key # <<>> /\ Len(Key) <= KeyLenLimit
       /\ ~Contains(TrimRight(Key, NL), <<NL>>) /\ fsState = "othererr")
    => /\ pc = "done"
       /\ ret = "failed to stat key file"
       /\ Constructs = {}
       /\ Ops("ImportKeyPair") = {}
       /\ Ops("SignImage") = {}
       /\ Ops("ImageSign") = {}

\* C3: the import is entered only after the first construction attempt failed
\* with "unsupported pem type"; another construction error is returned without
\* import; a successful import is followed by exactly one LoadPrivateKey with
\* the imported bytes and password; a failed import or second attempt is
\* returned; at most two construction attempts and one import per invocation.
Thm_C3 ==
    /\ \A i \in Ops("ImportKeyPair") :
         /\ i > 1
         /\ i - 1 \in Constructs
         /\ log[i - 1].res = ErrUnsupportedPem
         /\ \A j \in Constructs : j >= i - 1
         /\ IF Failed(i)
            THEN /\ i = Len(log)
                 /\ pc = "done"
                 /\ ret = "failed to import private key"
            ELSE /\ i + 1 \in Ops("LoadPrivateKey")
                 /\ log[i + 1].arg = keyBytes.PrivateBytes
                 /\ log[i + 1].pass = keyBytes.Password
                 /\ keyBytes.PrivateBytes = <<"i">>
                 /\ Failed(i + 1) =>
                      /\ i + 1 = Len(log)
                      /\ pc = "done"
                      /\ ret = "failed to create signer from imported private key"
    /\ \A i \in Constructs :
         (Failed(i) /\ log[i].res # ErrUnsupportedPem) =>
            /\ i = Len(log)
            /\ Ops("ImportKeyPair") \subseteq 1..i
            /\ pc \in {"recover", "done"}
            /\ pc = "done" => IsError(ret)
    /\ Cardinality(Constructs) <= 2
    /\ Cardinality(Ops("ImportKeyPair")) <= 1
    /\ Cardinality(Constructs) = 2 => Ops("ImportKeyPair") # {}

Witness_C3 ==
    /\ pc = "annotate"
    /\ sigSigner = "imported"
    /\ Cardinality(Constructs) = 2
    /\ keyBytes.Password = Bytes(<<"q">>)
    /\ pass = Bytes(<<"p">>)

\* C4: SignImage only after a successful signer construction, ImageSign only
\* after a successful SignImage; a failed call (other than the first
\* construction attempt that the import recovers, and a stat that only
\* classifies the key) is the last call of the invocation, which then ends
\* with an error; the errors raised before or by the key classification leave
\* no signer, no signing and no submission; Run returns nil only after a
\* successful submission; at most one successful construction, one SignImage
\* and one ImageSign per invocation.
Thm_C4 ==
    /\ \A i \in Ops("SignImage") :
         \E j \in Constructs : j < i /\ ~Failed(j)
    /\ \A i \in Ops("ImageSign") :
         \E j \in Ops("SignImage") : j < i /\ ~Failed(j)
    /\ \A i \in DOMAIN log :
         (Failed(i) /\ log[i].res # "panic" /\ log[i].op # "os.Stat"
            /\ ~(i \in Constructs /\ log[i].res = ErrUnsupportedPem
                 /\ (pc = "recover" \/ i + 1 \in Ops("ImportKeyPair"))))
         => /\ i = Len(log)
            /\ pc \in {"recover", "done"}
            /\ pc = "recover" => i \in Constructs
            /\ pc = "done" => IsError(ret)
    /\ (pc = "done" /\ ret \in {"key is required", "failed to parse provided annotations",
                               "failed to stat key file", "invalid key file: is directory",
                               "failed to create signer from private key",
                               "failed to import private key",
                               "failed to create signer from imported private key"})
         => (Ops("SignImage") = {} /\ Ops("ImageSign") = {}
             /\ \A j \in Constructs : Failed(j))
    /\ (pc = "done" /\ ret = "nil") =>
         \E i \in Ops("ImageSign") : i = Len(log) /\ ~Failed(i)
    /\ Cardinality({j \in Constructs : ~Failed(j)}) <= 1
    /\ Cardinality(Ops("SignImage")) <= 1
    /\ Cardinality(Ops("ImageSign")) <= 1
    /\ (sigSigner # "none") = (\E j \in Constructs : ~Failed(j))

Witness_C4 ==
    /\ pc = "done"
    /\ ret = "nil"
    /\ sigSigner = "imported"
    /\ Cardinality(Ops("SignImage")) = 1
    /\ Cardinality(Ops("ImageSign")) = 1

InvalidOverrides ==
    ~Annotations.isNil /\ \E k \in DOMAIN Annotations.m : InvalidKeySyntax(k)

ValueComplaintsOnly ==
    /\ ~Annotations.isNil
    /\ ~InvalidOverrides
    /\ \E k \in DOMAIN Annotations.m :
         ValueTooLong(Annotations.m[k]) \/ ValueFailsRegexp(Annotations.m[k])

\* C5: with an override key of invalid selector syntax Run ends before any
\* call to a collaborator (client, auth, details, provider, stat, signer
\* construction, import, signing, submission) with the annotation error (or,
\* with an empty key, the missing-key error); overrides with value complaints
\* only are not rejected.
Thm_C5 ==
    /\ InvalidOverrides =>
         /\ log = <<>>
         /\ sigSigner = "none"
         /\ pc \in {"start", "validate", "done"}
         /\ pc = "done" =>
              ret = IF Key = <<>> THEN "key is required"
                    ELSE "failed to parse provided annotations"
    /\ ValueComplaintsOnly => ret # "failed to parse provided annotations"
    /\ ret = "failed to parse provided annotations" => InvalidOverrides

Witness_C5 ==
    /\ pc = "done"
    /\ ret = "failed to parse provided annotations"
    /\ InvalidOverrides
    /\ log = <<>>

\* C6 as stated: an invocation that ended without any signer-construction
\* attempt never invoked the passphrase provider.
CEx_C6 ==
    (pc = "done" /\ Constructs = {}) => Ops("getPrivateKeyPass") = {}

\* C6 (as amended): the provider is called eagerly, at most once, right after
\* the successful ImageDetails call and before the key is classified: every
\* stat, construction attempt and import comes after a successful provider
\* call, and the invocations that end on a directory or on a stat failure,
\* without construction attempt, have invoked it exactly once.
Thm_C6 ==
    /\ Cardinality(Ops("getPrivateKeyPass")) <= 1
    /\ \A i \in Ops("getPrivateKeyPass") :
         /\ i > 1
         /\ log[i - 1].op = "ImageDetails"
         /\ ~Failed(i - 1)
    /\ \A j \in DOMAIN log :
         log[j].op \in {"os.Stat", "LoadPrivateKey", "SignerVerifierFromKeyRef",
                        "ImportKeyPair"}
         => \E i \in Ops("getPrivateKeyPass") : i < j /\ ~Failed(i)
    /\ (pc = "done" /\ ret \in {"invalid key file: is directory", "failed to stat key file"})
         => /\ Constructs = {}
            /\ Cardinality(Ops("getPrivateKeyPass")) = 1
    /\ pc \in {"classify", "recover", "annotate", "sign", "submit"}
         => Cardinality(Ops("getPrivateKeyPass")) = 1

Witness_C6 ==
    /\ pc = "done"
    /\ ret = "invalid key file: is directory"
    /\ Constructs = {}
    /\ Cardinality(Ops("getPrivateKeyPass")) = 1

\* the calls that consume the passphrase obtained from the provider
PassConsumers ==
    {j \in DOMAIN log :
        \/ log[j].op \in {"SignerVerifierFromKeyRef", "ImportKeyPair"}
        \/ log[j].op = "LoadPrivateKey" /\ (j = 1 \/ log[j - 1].op # "ImportKeyPair")}

\* C7: when the provider returned a passphrase of length zero, raw-key loading,
\* the file-key passphrase callback and the import routine receive nil and
\* never an empty non-nil byte slice; a non-empty passphrase reaches them
\* unchanged.
Thm_C7 ==
    \A i \in Ops("getPrivateKeyPass") : \A j \in PassConsumers :
        /\ i < j
        /\ ~Failed(i)
        /\ IF Len(log[i].arg) = 0
           THEN log[j].pass.isNil /\ log[j].pass = NilBytes
           ELSE ~log[j].pass.isNil /\ log[j].pass.bytes = log[i].arg

Witness_C7 ==
    /\ \E i \in Ops("getPrivateKeyPass") : ~Failed(i) /\ Len(log[i].arg) = 0
    /\ \E j \in Ops("ImportKeyPair") : log[j].pass = NilBytes
    /\ \E j \in Ops("SignerVerifierFromKeyRef") : log[j].pass = NilBytes

Consulted(src) == \E i \in DOMAIN pret.consulted : pret.consulted[i] = src

\* C8: getPrivateKeyPass returns the environment variable's value verbatim when
\* it is set (even empty) without consulting terminal or stdin; otherwise the
\* prompted text when stdin is a terminal, without reading stdin; otherwise all
\* of stdin, untrimmed.
Thm_C8 ==
    pc = "returned" =>
      /\ penv.envSet =>
           /\ pret.val = penv.envVal
           /\ pret.err = ""
           /\ pret.consulted = <<"env">>
           /\ ~pret.panic
      /\ (~penv.envSet /\ penv.stdinMode = "chardev") =>
           /\ pret.val = penv.prompt.val
           /\ pret.err = penv.prompt.err
           /\ Consulted("prompt")
           /\ ~Consulted("stdin")
      /\ (~penv.envSet /\ penv.stdinMode = "other") =>
           /\ pret.val = penv.stdin.val
           /\ pret.err = penv.stdin.err
           /\ Consulted("stdin")
           /\ ~Consulted("prompt")

Witness_C8 ==
    /\ pc = "returned"
    /\ penv.envSet
    /\ penv.envVal = <<"p">>
    /\ penv.stdinMode = "other"
    /\ penv.stdin.val = <<"p", NL>>
    /\ pret.val = <<"p">>

\* C9 as stated: when the registry-detail lookup fails for a local image, Run
\* does not abort with an error.
CEx_C9 ==
    \A i \in Ops("ImageDetails") :
        (Failed(i) /\ IsLocalReference(ref) /\ pc = "done") => ~IsError(ret)

\* C9 (as amended): a failed registry-detail lookup is fatal for a local image
\* as for any other: Run returns the lookup's error and no provider call, key
\* load, signing or submission follows.  What Run tolerates is the error of
\* parsing the image name (line 72): it goes on to the lookup with the nil
\* reference, and never reaches signing with it.
Thm_C9 ==
    /\ \A i \in Ops("ImageDetails") :
         Failed(i) =>
            /\ i = Len(log)
            /\ pc = "done"
            /\ ret = log[i].res
            /\ IsError(ret)
            /\ sigSigner = "none"
    /\ (ref = NilRef /\ (pc = "details" \/ Ops("ImageDetails") # {})) =>
         /\ Ops("SignImage") = {}
         /\ Ops("ImageSign") = {}
         /\ pc \in {"details", "digest", "done"}
         /\ pc = "done" => ret \in {"image not found", "panic"}

Witness_C9 ==
    /\ pc = "done"
    /\ IsLocalReference(ref)
    /\ ret = "image not found"
    /\ Ops("ImageDetails") # {}

Overrides == IF Annotations.isNil THEN <<>> ELSE Annotations.m

\* C10: the annotations passed to SignImage are the defaults of the signed
\* name with the overrides on top: every override key has its override value,
\* every other default key its default value, and there is no other key; with
\* no overrides they are the defaults.
Thm_C10 ==
    Ops("SignImage") # {} =>
      LET d == GetDefaultSignatureAnnotations(SignedName(ref, details)) IN
        /\ DOMAIN annotations = DOMAIN d \cup DOMAIN Overrides
        /\ \A k \in DOMAIN Overrides : annotations[k] = Overrides[k]
        /\ \A k \in DOMAIN d \ DOMAIN Overrides : annotations[k] = d[k]
        /\ Overrides = <<>> => annotations = d

Witness_C10 ==
    /\ Ops("SignImage") # {}
    /\ ~Annotations.isNil
    /\ DOMAIN Annotations.m = {"b", "c"}
    /\ annotations = ("a" :> "reg/app:v1") @@ ("b" :> "9") @@ ("c" :> "L")

====
